---- MODULE Spec2Model ----
(***************************************************************************)
(* ConversationEngine (backend/services/conversation_engine.py): the       *)
(* multi-speaker conversation build, its speaker profiles, the prosody     *)
(* annotator and the routing of segments to the TTS backend.               *)
(*                                                                         *)
(* Units: pauses are integers in milliseconds (0.8 s = 800); the profile   *)
(* multipliers are integers in percent (1.2 = 120); interruption           *)
(* likelihoods and random.random() draws are per mille.                    *)
(* A text is a sequence of sentences; joining two texts with " " is the    *)
(* concatenation of the sequences. What the code reads from a text (its    *)
(* word count, its last character, its regex matches) is tabulated per     *)
(* sentence in SentenceFeatures, computed with the source's expressions.   *)
(***************************************************************************)
EXTENDS Integers, Sequences, FiniteSets, TLC

VARIABLES
    vibevoice_service,    \* the collaborator handed to __init__: None, or its kind
    speaker_profiles,     \* self.speaker_profiles: speaker name -> SpeakerProfile
    conversation_history, \* self.conversation_history
    tasks,                \* one record per caller task running create_dynamic_conversation
    annotated,            \* result of the last direct annotator call (SpecAnnotate)
    method_call,          \* a direct call of one method: its arguments and results
    exclusive             \* per caller task (SpecConc): its build has had the engine
                          \* to itself, from empty profiles on

vars == <<vibevoice_service, speaker_profiles, conversation_history, tasks,
          annotated, method_call, exclusive>>

None == "None"

\* ---------------------------------------------------------------- bounds
\* The number of non-empty lines of a script
MaxLines == 2

\* The number of tokens of a text given to the Markdown cleaner
MaxTokens == 5

\* The number of tokens before the first colon of a script line
MaxPrefix == 3

\* ------------------------------------------------------------- enumerations
ConversationStyle ==
    {"natural", "interview", "debate", "podcast", "casual", "formal", "dramatic"}

\* EmotionType in declaration order (the iteration order of the enum)
EmotionType ==
    <<"neutral", "happy", "excited", "sad", "angry", "surprised", "confused",
      "confident", "nervous", "whispering">>

Emotions == {EmotionType[i] : i \in 1..Len(EmotionType)}

\* ------------------------------------------------------------------ texts
NoMatches == [e \in Emotions |-> 0]

Plain(words, last, comma) ==
    [words |-> words, last |-> last, comma |-> comma, connective |-> FALSE,
     question |-> (last = "?"), matches |-> NoMatches]

\* Per sentence: len(s.split()), the last character, ',' in s, a discourse
\* connective in s.lower(), '?' in s, the number of re.findall matches of each
\* emotion's patterns in s.lower().
SentenceFeatures(s) ==
    CASE s = "Hi there!" -> Plain(2, "!", FALSE)
      [] s = "Hello, how are you?" -> Plain(4, "?", TRUE)
      [] s = "Good morning" -> Plain(2, "g", FALSE)
      [] s = "Wow, that is really amazing!" ->
            [Plain(5, "!", TRUE) EXCEPT !.matches = [NoMatches EXCEPT !["excited"] = 3]]
      [] s = "I agree, however we should wait" ->
            [Plain(6, "t", TRUE) EXCEPT !.connective = TRUE]
      [] s = "I am so sorry" ->
            [Plain(4, "y", FALSE) EXCEPT
                !.matches = [NoMatches EXCEPT !["excited"] = 1, !["sad"] = 1]]
      [] s = "I'm doing **fantastic**, thanks for asking!" ->
            [Plain(6, "!", TRUE) EXCEPT
                !.matches = [NoMatches EXCEPT !["excited"] = 1]]
      [] s = "**Hello** there, *friend*! ### Not a header" -> Plain(7, "r", TRUE)
      [] s = "Oh no, I am so sorry" ->
            [Plain(6, "y", TRUE) EXCEPT
                !.matches = [NoMatches EXCEPT !["excited"] = 1, !["sad"] = 2]]
      [] s = "I am glad" ->
            [Plain(3, "d", FALSE) EXCEPT
                !.matches = [NoMatches EXCEPT !["happy"] = 1]]
      [] s = "Mm-hmm" -> Plain(1, "m", FALSE)
      [] s = "Right" -> Plain(1, "t", FALSE)
      [] s = "Exactly" ->
            [Plain(1, "y", FALSE) EXCEPT
                !.matches = [NoMatches EXCEPT !["confident"] = 1]]
      [] s = "Oh" -> Plain(1, "h", FALSE)
      [] s = "Wow" ->
            [Plain(1, "w", FALSE) EXCEPT
                !.matches = [NoMatches EXCEPT !["excited"] = 1]]
      [] s = "Really?" -> Plain(1, "?", FALSE)
      [] s = "I see" -> Plain(2, "e", FALSE)

RECURSIVE WordCountFrom(_, _)
WordCountFrom(text, i) ==
    IF i > Len(text) THEN 0
    ELSE SentenceFeatures(text[i]).words + WordCountFrom(text, i + 1)

\* len(text.split())
WordCount(text) == WordCountFrom(text, 1)

\* text.endswith(ch)
EndsWith(text, ch) == text # <<>> /\ SentenceFeatures(text[Len(text)]).last = ch

\* ',' in text
HasComma(text) == \E i \in 1..Len(text) : SentenceFeatures(text[i]).comma

\* any(word in text.lower() for word in ['however', ...])
HasConnective(text) == \E i \in 1..Len(text) : SentenceFeatures(text[i]).connective

\* '?' in text
HasQuestion(text) == \E i \in 1..Len(text) : SentenceFeatures(text[i]).question

RECURSIVE PatternMatchesFrom(_, _, _)
PatternMatchesFrom(text, i, emotion) ==
    IF i > Len(text) THEN 0
    ELSE SentenceFeatures(text[i]).matches[emotion]
         + PatternMatchesFrom(text, i + 1, emotion)

\* sum over the emotion's patterns of len(re.findall(pattern, text_lower))
PatternMatches(text, emotion) == PatternMatchesFrom(text, 1, emotion)

\* ------------------------------------------------- _clean_markdown_for_tts
\* The cleaner works on the characters of a text. A text is split into tokens:
\* "*", "#" and " " are the single characters, any other token is a plain run,
\* a string without Markdown or HTML characters, digits or redundant
\* whitespace. On such texts the substitutions for __, _, links, code,
\* numbered lists, blockquotes and HTML tags find nothing to replace.

\* First index >= i of t that does not hold c
RECURSIVE RunEnd(_, _, _)
RunEnd(t, i, c) == IF i <= Len(t) /\ t[i] = c THEN RunEnd(t, i + 1, c) ELSE i

\* First index >= i of t that holds "*"
RECURSIVE NextStar(_, _)
NextStar(t, i) == IF i > Len(t) \/ t[i] = "*" THEN i ELSE NextStar(t, i + 1)

\* re.sub(r'\*\*([^*]+)\*\*', r'\1', t), scanning from index i
RECURSIVE SubBoldFrom(_, _)
SubBoldFrom(t, i) ==
    IF i > Len(t) THEN <<>>
    ELSE LET j == NextStar(t, i + 2) IN
         IF /\ i + 1 <= Len(t) /\ t[i] = "*" /\ t[i + 1] = "*"
            /\ j > i + 2 /\ j + 1 <= Len(t) /\ t[j + 1] = "*"
         THEN SubSeq(t, i + 2, j - 1) \o SubBoldFrom(t, j + 2)
         ELSE <<t[i]>> \o SubBoldFrom(t, i + 1)

\* re.sub(r'\*([^*]+)\*', r'\1', t), scanning from index i
RECURSIVE SubItalicFrom(_, _)
SubItalicFrom(t, i) ==
    IF i > Len(t) THEN <<>>
    ELSE LET j == NextStar(t, i + 1) IN
         IF t[i] = "*" /\ j > i + 1 /\ j <= Len(t)
         THEN SubSeq(t, i + 1, j - 1) \o SubItalicFrom(t, j + 1)
         ELSE <<t[i]>> \o SubItalicFrom(t, i + 1)

\* re.sub(r'^#{1,6}\s+', '', t, flags=re.MULTILINE): a text has one line, ^
\* matches at its start only
SubHeader(t) ==
    LET h == RunEnd(t, 1, "#")
        e == RunEnd(t, h, " ")
    IN IF h - 1 >= 1 /\ h - 1 <= 6 /\ e > h THEN SubSeq(t, e, Len(t)) ELSE t

\* re.sub(r'^\s*[-*+]\s+', '', t, flags=re.MULTILINE)
SubListMarker(t) ==
    LET m == RunEnd(t, 1, " ")
        e == RunEnd(t, m + 1, " ")
    IN IF m <= Len(t) /\ t[m] = "*" /\ e > m + 1 THEN SubSeq(t, e, Len(t)) ELSE t

\* re.sub(r'^[-*_]{3,}$', '', t, flags=re.MULTILINE)
SubRule(t) ==
    IF Len(t) >= 3 /\ \A k \in 1..Len(t) : t[k] = "*" THEN <<>> ELSE t

\* re.sub(r'\s+', ' ', t), scanning from index i
RECURSIVE SubSpacesFrom(_, _)
SubSpacesFrom(t, i) ==
    IF i > Len(t) THEN <<>>
    ELSE IF t[i] = " " THEN <<" ">> \o SubSpacesFrom(t, RunEnd(t, i, " "))
    ELSE <<t[i]>> \o SubSpacesFrom(t, i + 1)

\* t.strip(), t without runs of spaces
Strip(t) ==
    LET a == IF t # <<>> /\ t[1] = " " THEN 2 ELSE 1
        b == IF Len(t) >= a /\ t[Len(t)] = " " THEN Len(t) - 1 ELSE Len(t)
    IN SubSeq(t, a, b)

\* _clean_markdown_for_tts on the tokens of a text: the substitutions in the
\* order of the code, each applied to the value the one before it returned
CleanMarkdown(t) ==
    CHOOSE cleaned \in
        {Strip(spaced) : spaced \in
            {SubSpacesFrom(ruled, 1) : ruled \in
                {SubRule(listed) : listed \in
                    {SubListMarker(headed) : headed \in
                        {SubHeader(italic) : italic \in
                            {SubItalicFrom(bold, 1) : bold \in
                                {SubBoldFrom(t, 1)}}}}}}} : TRUE

\* The tokens of a sentence
Tokens(s) ==
    CASE s = "I'm doing **fantastic**, thanks for asking!" ->
            <<"I'm doing", " ", "*", "*", "fantastic", "*", "*", ", thanks for asking!">>
      [] s = "**Hello** there, *friend*! ### Not a header" ->
            <<"*", "*", "Hello", "*", "*", " ", "there,", " ", "*", "friend", "*",
              "!", " ", "#", "#", "#", " ", "Not a header">>
      [] OTHER -> <<s>>

\* The tokens of a text: those of its sentences, joined with " "
RECURSIVE TextTokens(_, _)
TextTokens(text, i) ==
    IF i > Len(text) THEN <<>>
    ELSE (IF i > 1 THEN <<" ">> ELSE <<>>) \o Tokens(text[i]) \o TextTokens(text, i + 1)

\* The string of a token sequence
RECURSIVE Join(_)
Join(t) == IF t = <<>> THEN "" ELSE Head(t) \o Join(Tail(t))

\* _clean_markdown_for_tts(text), as a string
CleanMarkdownForTts(text) == Join(CleanMarkdown(TextTokens(text, 1)))

\* --------------------------------------------------------- script parser
\* A script line after strip(), classified by the speaker patterns: a header
\* line carries the matched speaker (group 1) and its inline text (group 2,
\* possibly empty); any other non-empty line has speaker None.
HeaderLine(speaker, text) == [speaker |-> speaker, text |-> text]
OtherLine(text) == [speaker |-> None, text |-> text]

\* Variant: the pair is appended for any speaker, also with empty text
Flush_EmptyText(segments, current_speaker, current_text) ==
    IF current_speaker # None
    THEN Append(segments, <<current_speaker, current_text>>)
    ELSE segments

\* if current_speaker and current_text: segments.append(...)
Flush(segments, current_speaker, current_text) ==
    IF current_speaker # None /\ current_text # <<>>
    THEN Append(segments, <<current_speaker, current_text>>)
    ELSE segments

RECURSIVE ParseLines(_, _, _, _)
ParseLines(lines, segments, current_speaker, current_text) ==
    IF lines = <<>> THEN Flush(segments, current_speaker, current_text)
    ELSE LET line == Head(lines) IN
         IF line.speaker # None
         THEN ParseLines(Tail(lines), Flush(segments, current_speaker, current_text),
                         line.speaker, line.text)
         ELSE ParseLines(Tail(lines), segments, current_speaker,
                         current_text \o line.text)

\* Variant: without the flush of the last segment after the loop
ParseConversationScript_LastLost(script) ==
    LET segments == ParseLines(script, <<>>, None, <<>>)
    IN SubSeq(segments, 1, Len(segments) - 1)

\* _parse_conversation_script
ParseConversationScript(script) == ParseLines(script, <<>>, None, <<>>)

\* ------------------------------------------------------ emotion detection
\* Variant: the continuity bonus weighs as much as one pattern match
EmotionScore_BonusCounts(text, previous_emotion, emotion) ==
    10 * PatternMatches(text, emotion)
    + (IF previous_emotion # "neutral" /\ emotion = previous_emotion THEN 10 ELSE 0)

\* emotion_scores, times ten: ten per pattern match, three for continuity
EmotionScore(text, previous_emotion, emotion) ==
    10 * PatternMatches(text, emotion)
    + (IF previous_emotion # "neutral" /\ emotion = previous_emotion THEN 3 ELSE 0)

\* max(emotion_scores, key=emotion_scores.get): the first maximal key in
\* EmotionType order
MaxEmotion(text, previous_emotion) ==
    LET S(i) == EmotionScore(text, previous_emotion, EmotionType[i])
        best == CHOOSE i \in 1..Len(EmotionType) :
                    /\ \A j \in 1..Len(EmotionType) : S(j) <= S(i)
                    /\ \A j \in 1..(i - 1) : S(j) < S(i)
    IN EmotionType[best]

DetectEmotion(text, previous_emotion) ==
    LET max_emotion == MaxEmotion(text, previous_emotion) IN
    IF EmotionScore(text, previous_emotion, max_emotion) > 5
    THEN max_emotion ELSE "neutral"

\* ------------------------------------------------------------ pause table
PausePatterns ==
    [natural   |-> [sentence_end |-> 800, comma |-> 300, question |-> 1200,
                    speaker_change |-> 1000, interruption |-> 100, thinking |-> 500],
     interview |-> [sentence_end |-> 600, comma |-> 200, question |-> 2000,
                    speaker_change |-> 1500, interruption |-> 50, thinking |-> 800],
     debate    |-> [sentence_end |-> 400, comma |-> 150, question |-> 1000,
                    speaker_change |-> 300, interruption |-> 0, thinking |-> 200],
     podcast   |-> [sentence_end |-> 1000, comma |-> 400, question |-> 1500,
                    speaker_change |-> 1800, interruption |-> 20, thinking |-> 1000],
     casual    |-> [sentence_end |-> 500, comma |-> 200, question |-> 800,
                    speaker_change |-> 600, interruption |-> 200, thinking |-> 400]]

\* Variant: a style without a table of its own uses the casual table
PauseConfig_FallbackCasual(conversation_style) ==
    IF conversation_style \in DOMAIN PausePatterns
    THEN PausePatterns[conversation_style] ELSE PausePatterns["casual"]

\* self.pause_patterns.get(conversation_style, self.pause_patterns[NATURAL])
PauseConfig(conversation_style) ==
    IF conversation_style \in DOMAIN PausePatterns
    THEN PausePatterns[conversation_style] ELSE PausePatterns["natural"]

Max(a, b) == IF a >= b THEN a ELSE b

\* pause_before = max(0.1, pause_before)
ClampPauseBefore(pause_before) == Max(100, pause_before)

\* Variant: pause_after without its minimum
ClampPauseAfter_NoMinimum(pause_after) == pause_after

\* pause_after = max(0.2, pause_after)
ClampPauseAfter(pause_after) == Max(200, pause_after)

\* _calculate_natural_pauses up to, not including, the random variation
BasePauses(text, speaker, previous_speaker, conversation_style, profiles) ==
    LET pause_config == PauseConfig(conversation_style)
        pause_before == IF previous_speaker # None /\ previous_speaker # speaker
                        THEN pause_config.speaker_change ELSE 200
        punct == IF EndsWith(text, "?") THEN pause_config.question
                 ELSE IF EndsWith(text, "!") THEN (pause_config.sentence_end * 12) \div 10
                 ELSE IF HasComma(text)
                      THEN Max(pause_config.sentence_end, pause_config.comma)
                 ELSE pause_config.sentence_end
        thought == IF HasConnective(text) THEN punct + pause_config.thinking ELSE punct
        pause_after == IF speaker \in DOMAIN profiles
                       THEN (thought * profiles[speaker].pause_preference) \div 100
                       ELSE thought
    IN <<pause_before, pause_after>>

\* _calculate_natural_pauses; jitter = the two random.uniform draws
CalculateNaturalPauses(text, speaker, previous_speaker, conversation_style, profiles, jitter) ==
    LET base == BasePauses(text, speaker, previous_speaker, conversation_style, profiles)
    IN <<ClampPauseBefore(base[1] + jitter[1]), ClampPauseAfter(base[2] + jitter[2])>>

\* random.uniform(-0.1, 0.1) and random.uniform(-0.2, 0.2): both at their
\* lower ends, both at their upper ends
JitterSamples == {<<-100, -200>>, <<100, 200>>}

\* ------------------------------------------------------- speaker profiles
NoProfiles == [n \in {} |-> 0]

FallbackVoices == <<"vibevoice-alice", "vibevoice-andrew", "vibevoice-large-alice">>

\* The ends of the three random.uniform ranges of a style: speaking_rate and
\* pause_preference in percent, interruption_likelihood per mille.
Draw(rate, likelihood, preference) ==
    [speaking_rate |-> rate, interruption_likelihood |-> likelihood,
     pause_preference |-> preference]

ProfileDraws(conversation_style) ==
    CASE conversation_style = "debate" -> {Draw(110, 200, 50), Draw(130, 400, 80)}
      [] conversation_style = "podcast" -> {Draw(90, 10, 120), Draw(110, 50, 150)}
      [] conversation_style = "casual" -> {Draw(80, 100, 80), Draw(120, 300, 120)}
      [] OTHER -> {Draw(90, 50, 90), Draw(110, 150, 110)}

\* _get_available_voices
GetAvailableVoices(service) ==
    IF service.attached /\ service.has_voice_configs
    THEN service.voice_configs ELSE {}

\* requested_voice_id in available_voices
VoiceFound(requested_voice_id, available_voices) ==
    requested_voice_id \in available_voices

\* fallback_voices[fallback_index % len(fallback_voices)]
FallbackVoice(fallback_index) ==
    FallbackVoices[(fallback_index % Len(FallbackVoices)) + 1]

\* self.speaker_profiles[speaker_name] = profile
PutProfile(profiles, speaker_name, profile) ==
    [n \in (DOMAIN profiles) \cup {speaker_name} |->
        IF n = speaker_name THEN profile ELSE profiles[n]]

\* The loop of _initialize_speaker_profiles from its i-th item on (i is 1-based
\* here, enumerate's i is i - 1); draws[i] are the item's random.uniform values.
\* The fields personality and emotion_tendency, which nothing reads, are left out.
RECURSIVE InitializeFrom(_, _, _, _, _, _)
InitializeFrom(profiles, speaker_mapping, i, fallback_index, available_voices, draws) ==
    IF i > Len(speaker_mapping) THEN profiles
    ELSE LET speaker_name == speaker_mapping[i][1]
             requested_voice_id == speaker_mapping[i][2]
             found == VoiceFound(requested_voice_id, available_voices)
             voice_id == IF found THEN requested_voice_id
                         ELSE FallbackVoice(fallback_index)
             profile == [name |-> speaker_name,
                         voice_id |-> voice_id,
                         speaking_rate |-> draws[i].speaking_rate,
                         interruption_likelihood |-> draws[i].interruption_likelihood,
                         pause_preference |-> draws[i].pause_preference]
         IN InitializeFrom(PutProfile(profiles, speaker_name, profile),
                           speaker_mapping, i + 1,
                           IF found THEN fallback_index ELSE fallback_index + 1,
                           available_voices, draws)

\* _initialize_speaker_profiles: the new value of self.speaker_profiles
InitializeSpeakerProfiles(profiles, speaker_mapping, service, draws) ==
    InitializeFrom(profiles, speaker_mapping, 1, 0, GetAvailableVoices(service), draws)

\* ------------------------------------------------------ prosody annotator
Segment(speaker, text, emotion, pause_before, pause_after, speech_rate) ==
    [speaker |-> speaker, text |-> text, emotion |-> emotion,
     pause_before |-> pause_before, pause_after |-> pause_after,
     speech_rate |-> speech_rate]

\* The loop of _parse_and_enhance_script from raw segment i on
RECURSIVE EnhanceFrom(_, _, _, _, _, _, _, _)
EnhanceFrom(raw_segments, i, previous_emotion, previous_speaker, conversation_style, emotional_intelligence, profiles, jitter) ==
    IF i > Len(raw_segments) THEN <<>>
    ELSE LET speaker == raw_segments[i][1]
             text == raw_segments[i][2]
             emotion == IF emotional_intelligence
                        THEN DetectEmotion(text, previous_emotion) ELSE "neutral"
             pauses == CalculateNaturalPauses(text, speaker, previous_speaker,
                                              conversation_style, profiles, jitter[i])
             speech_rate == IF speaker \in DOMAIN profiles
                            THEN profiles[speaker].speaking_rate ELSE 100
         IN <<Segment(speaker, text, emotion, pauses[1], pauses[2], speech_rate)>>
            \o EnhanceFrom(raw_segments, i + 1, emotion, speaker, conversation_style,
                           emotional_intelligence, profiles, jitter)

Reactions == {"Mm-hmm", "Right", "Exactly", "Oh", "Wow", "Really?", "I see"}

\* One pass of the loop of _add_natural_interactions: random.random() (per
\* mille) and random.choice(reactions) for the gap after segment i.
NoReaction == [random |-> 999, reaction |-> "Mm-hmm"]
ReactionDraws == {NoReaction} \cup {[random |-> 0, reaction |-> r] : r \in Reactions}

\* speaker_profile and random.random() < speaker_profile.interruption_likelihood
Interrupts(speaker, profiles, random) ==
    speaker \in DOMAIN profiles /\ random < profiles[speaker].interruption_likelihood

RECURSIVE InteractFrom(_, _, _, _)
InteractFrom(segments, i, profiles, rdraws) ==
    IF i > Len(segments) THEN <<>>
    ELSE LET rest == InteractFrom(segments, i + 1, profiles, rdraws) IN
         IF i < Len(segments)
            /\ Interrupts(segments[i + 1].speaker, profiles, rdraws[i].random)
         THEN <<segments[i],
                Segment(segments[i + 1].speaker, <<rdraws[i].reaction>>, "neutral",
                        100, 300,
                        (profiles[segments[i + 1].speaker].speaking_rate * 12) \div 10)>>
              \o rest
         ELSE <<segments[i]>> \o rest

\* Variant: without the early return for the formal style
AddNaturalInteractions_FormalToo(segments, conversation_style, profiles, rdraws) ==
    InteractFrom(segments, 1, profiles, rdraws)

\* _add_natural_interactions
AddNaturalInteractions(segments, conversation_style, profiles, rdraws) ==
    IF conversation_style = "formal" THEN segments
    ELSE InteractFrom(segments, 1, profiles, rdraws)

\* _parse_and_enhance_script
ParseAndEnhanceScript(script, conversation_style, add_natural_interactions, emotional_intelligence, profiles, jitter, rdraws) ==
    LET raw_segments == ParseConversationScript(script)
        enhanced == EnhanceFrom(raw_segments, 1, "neutral", None, conversation_style,
                                emotional_intelligence, profiles, jitter)
    IN IF add_natural_interactions
       THEN AddNaturalInteractions(enhanced, conversation_style, profiles, rdraws)
       ELSE enhanced

\* ---------------------------------------------------- segment synthesizer
\* Python's order of the speaker names used here
NameOrder == <<"Alice", "Bob", "Carol">>

SpeakerNames == {NameOrder[i] : i \in 1..Len(NameOrder)}

\* sorted(self.speaker_profiles.keys())
SortedNames(profiles) ==
    LET Known(n) == n \in DOMAIN profiles IN SelectSeq(NameOrder, Known)

\* speaker_names.index(x), zero-based
IndexIn(speaker_names, x) ==
    (CHOOSE k \in 1..Len(speaker_names) : speaker_names[k] = x) - 1

\* speaker_profile.voice_id if speaker_profile else segment.speaker
SegmentVoice(segment, profiles) ==
    IF segment.speaker \in DOMAIN profiles
    THEN profiles[segment.speaker].voice_id ELSE segment.speaker

\* Variant: multi-speaker mode whatever the number of profiles
MultiSpeakerMode_Always(profiles) == TRUE

\* len(self.speaker_profiles) > 1
MultiSpeakerMode(profiles) == Cardinality(DOMAIN profiles) > 1

\* speaker_names.index(segment.speaker) if segment.speaker in speaker_names else 0
SpeakerIndex(segment, speaker_names) ==
    IF \E k \in 1..Len(speaker_names) : speaker_names[k] = segment.speaker
    THEN IndexIn(speaker_names, segment.speaker) ELSE 0

\* The arguments of the generate_speech call _generate_segment_audio makes for a
\* segment. speaker_tag i stands for the prefix "Speaker i: " of the text (-1:
\* no prefix); speaker_mapping[j + 1] is the entry of key "Speaker j".
BackendCall(segment, profiles) ==
    LET formatted_text == CleanMarkdownForTts(segment.text)
        voice_id == SegmentVoice(segment, profiles)
        speaker_names == SortedNames(profiles)
    IN IF MultiSpeakerMode(profiles)
       THEN [text |-> formatted_text,
             speaker_tag |-> SpeakerIndex(segment, speaker_names),
             voice |-> voice_id,
             emotion |-> segment.emotion,
             multi_speaker |-> TRUE,
             speaker_mapping |-> [j \in 1..Len(speaker_names) |->
                                     profiles[speaker_names[j]].voice_id]]
       ELSE [text |-> formatted_text,
             speaker_tag |-> -1,
             voice |-> voice_id,
             emotion |-> segment.emotion,
             multi_speaker |-> FALSE,
             speaker_mapping |-> <<>>]

\* What the awaited generate_speech call can do: raise, return empty bytes, or
\* return a decodable clip (its length in ms).
BackendOutcomes ==
    {[kind |-> "raise", ms |-> 0], [kind |-> "empty", ms |-> 0],
     [kind |-> "audio", ms |-> 700]}

NoAudio == [kind |-> "none", segment |-> 0, ms |-> 0]

\* The value _generate_segment_audio returns once the backend call ended with
\* outcome: the except branch gives None, _apply_audio_effects is the identity.
SegmentAudio(outcome, i) ==
    IF outcome.kind = "raise" THEN NoAudio
    ELSE [kind |-> (IF outcome.kind = "audio" THEN "speech" ELSE "empty"),
          segment |-> i, ms |-> outcome.ms]

\* Variant: "if audio_data is not None", empty audio counts as audio
Truthy_NotNone(audio_data) == audio_data.kind # "none"

\* if audio_data:
Truthy(audio_data) == audio_data.kind \notin {"none", "empty"}

\* Variant: pauses under half a second are skipped
GenerateNaturalPause_SkipsShort(duration, i) ==
    IF duration < 500 THEN NoAudio
    ELSE [kind |-> "pause", segment |-> i, ms |-> duration]

\* _generate_natural_pause without background sound: None under 0.1 s, else
\* silence of int(duration * 1000) ms
GenerateNaturalPause(duration, i) ==
    IF duration < 100 THEN NoAudio
    ELSE [kind |-> "pause", segment |-> i, ms |-> duration]

\* ------------------------------------------------------------------ mixer
RECURSIVE TotalMs(_)
TotalMs(clips) == IF clips = <<>> THEN 0 ELSE Head(clips).ms + TotalMs(Tail(clips))

\* _mix_conversation_audio: raises on no (valid) segments, otherwise the
\* concatenation of the clips that are not empty
MixConversationAudio(audio_segments) ==
    LET segments == SelectSeq(audio_segments, Truthy) IN
    IF audio_segments = <<>> \/ segments = <<>>
    THEN [raised |-> TRUE, clips |-> <<>>, ms |-> 0]
    ELSE [raised |-> FALSE, clips |-> segments, ms |-> TotalMs(segments)]

\* --------------------------------------------------------------- engine
Tasks == {1}

NoResult == [kind |-> "none", audio |-> <<>>, mixed |-> <<>>,
             total_duration |-> 0, speaker_count |-> 0, word_count |-> 0,
             emotion_counts |-> NoMatches, segment_count |-> 0]

\* A task that is not inside create_dynamic_conversation
IdleTask ==
    [pc |-> "idle", speaker_mapping |-> <<>>,
     conversation_style |-> "natural",
     segments |-> <<>>, i |-> 0, audio_segments |-> <<>>, total_word_count |-> 0,
     emotion_distribution |-> NoMatches, calls |-> <<>>, outcomes |-> <<>>,
     cancelled |-> FALSE, result |-> NoResult]

NoService == [attached |-> FALSE, has_voice_configs |-> FALSE, voice_configs |-> {}]

\* The collaborators an engine is constructed with: none, or VibeVoiceService
\* with its built-in voices (the large model is not installed).
Services ==
    {NoService,
     [attached |-> TRUE, has_voice_configs |-> TRUE,
      voice_configs |-> {"vibevoice-alice", "vibevoice-andrew"}]}

\* ------------------------------------------------------- inputs of a build
RequestedVoices == {"vibevoice-andrew", "nonexistent-voice-id"}

MappedNames == {"Alice", "Bob"}

\* speaker_mapping: an insertion-ordered dict, as its sequence of items
SpeakerMappings ==
    {<<>>}
    \cup {<<<<n, v>>>> : n \in MappedNames, v \in RequestedVoices}
    \cup {<<<<p[1], v>>, <<p[2], w>>>> :
            p \in {q \in MappedNames \X MappedNames : q[1] # q[2]},
            v \in RequestedVoices, w \in RequestedVoices}

\* The script lines of a build: a header with inline text for each name (with
\* Markdown in it for Bob), a header without inline text, a line without header.
BuildLines ==
    {HeaderLine(n, <<"Hi there!">>) : n \in {"Alice", "Carol"}}
    \cup {HeaderLine("Alice", <<>>),
          HeaderLine("Bob", <<"**Hello** there, *friend*! ### Not a header">>),
          OtherLine(<<"I'm doing **fantastic**, thanks for asking!">>)}

RECURSIVE SeqsUpTo(_, _)
SeqsUpTo(S, n) ==
    IF n = 0 THEN {<<>>}
    ELSE LET shorter == SeqsUpTo(S, n - 1) IN
         shorter \cup {Append(q, x) : q \in {r \in shorter : Len(r) = n - 1}, x \in S}

BuildScripts == SeqsUpTo(BuildLines, MaxLines)

BuildStyles == {"natural"}

BuildJitter == {<<0, 0>>}

BuildReactionDraws == {NoReaction, [random |-> 0, reaction |-> "Really?"]}

BuildProfileDraws(conversation_style) ==
    {CHOOSE d \in ProfileDraws(conversation_style) :
        \A e \in ProfileDraws(conversation_style) :
            d.pause_preference <= e.pause_preference}

\* ------------------------------------------------ create_dynamic_conversation
SetTask(b, t) == tasks' = [tasks EXCEPT ![b] = t]

\* The body of create_dynamic_conversation down to the for loop: the profiles
\* are initialised, the script parsed and annotated, the accumulators reset.
EnterBuild(speaker_mapping, conversation_style, segments) ==
    [IdleTask EXCEPT
        !.pc = "loop", !.speaker_mapping = speaker_mapping,
        !.conversation_style = conversation_style, !.segments = segments, !.i = 1]

StartBuildWith(b, mappings, scripts) ==
    /\ tasks[b].pc = "idle"
    /\ \E speaker_mapping \in mappings, script \in scripts,
          conversation_style \in BuildStyles,
          add_natural_interactions \in BOOLEAN, emotional_intelligence \in BOOLEAN :
        \E draws \in [1..Len(speaker_mapping) -> BuildProfileDraws(conversation_style)] :
          LET profiles == InitializeSpeakerProfiles(speaker_profiles, speaker_mapping,
                                                    vibevoice_service, draws)
              n == Len(ParseConversationScript(script))
              inserting == add_natural_interactions /\ conversation_style # "formal"
          IN \E jitter \in [1..n -> BuildJitter],
                rdraws \in [1..(n - 1) ->
                              IF inserting THEN BuildReactionDraws ELSE {NoReaction}] :
               /\ speaker_profiles' = profiles
               /\ SetTask(b, EnterBuild(speaker_mapping, conversation_style,
                        ParseAndEnhanceScript(script, conversation_style,
                            add_natural_interactions, emotional_intelligence,
                            profiles, jitter, rdraws)))
    /\ UNCHANGED <<vibevoice_service, conversation_history, annotated, method_call>>

\* A caller enters create_dynamic_conversation
StartBuild(b) == StartBuildWith(b, SpeakerMappings, BuildScripts)

\* Variant: the calls are started without being awaited
LoopReady_NotAwaited(t) == t.pc \in {"loop", "await"}

\* The for loop is at the top of an iteration: no backend call of this build is
\* being awaited (audio_data = await self._generate_segment_audio(...)).
LoopReady(t) == t.pc = "loop"

\* Variant: a segment whose synthesis failed is tried again
AfterSegment_RetryFailed(t, audio_data) ==
    LET segment == t.segments[t.i]
        pause_audio == GenerateNaturalPause(segment.pause_after, t.i)
    IN IF Truthy(audio_data)
       THEN [t EXCEPT
                !.audio_segments =
                    IF Truthy(pause_audio) THEN @ \o <<audio_data, pause_audio>>
                    ELSE Append(@, audio_data),
                !.total_word_count = @ + WordCount(segment.text),
                !.emotion_distribution[segment.emotion] = @ + 1,
                !.i = @ + 1, !.pc = "loop"]
       ELSE [t EXCEPT !.pc = "loop"]

\* Variant: the loop stops at a segment whose synthesis failed, the build
\* neither going on nor ending
AfterSegment_StopsOnFailure(t, audio_data) ==
    LET segment == t.segments[t.i]
        pause_audio == GenerateNaturalPause(segment.pause_after, t.i)
    IN IF Truthy(audio_data)
       THEN [t EXCEPT
                !.audio_segments =
                    IF Truthy(pause_audio) THEN @ \o <<audio_data, pause_audio>>
                    ELSE Append(@, audio_data),
                !.total_word_count = @ + WordCount(segment.text),
                !.emotion_distribution[segment.emotion] = @ + 1,
                !.i = @ + 1, !.pc = "loop"]
       ELSE [t EXCEPT !.pc = "stopped"]

\* Variant: the pause is added outside "if audio_data:", for failed segments too
AfterSegment_PauseAlways(t, audio_data) ==
    LET segment == t.segments[t.i]
        pause_audio == GenerateNaturalPause(segment.pause_after, t.i)
    IN [t EXCEPT
           !.audio_segments =
               (IF Truthy(audio_data) THEN Append(@, audio_data) ELSE @)
                   \o (IF Truthy(pause_audio) THEN <<pause_audio>> ELSE <<>>),
           !.total_word_count =
               IF Truthy(audio_data) THEN @ + WordCount(segment.text) ELSE @,
           !.emotion_distribution[segment.emotion] =
               IF Truthy(audio_data) THEN @ + 1 ELSE @,
           !.i = @ + 1, !.pc = "loop"]

\* The loop body after _generate_segment_audio returned audio_data for
\* segment t.i: the clip, the counters and the pause, then the next iteration.
AfterSegment(t, audio_data) ==
    LET segment == t.segments[t.i]
        pause_audio == GenerateNaturalPause(segment.pause_after, t.i)
    IN IF Truthy(audio_data)
       THEN [t EXCEPT
                !.audio_segments =
                    IF Truthy(pause_audio) THEN @ \o <<audio_data, pause_audio>>
                    ELSE Append(@, audio_data),
                !.total_word_count = @ + WordCount(segment.text),
                !.emotion_distribution[segment.emotion] = @ + 1,
                !.i = @ + 1, !.pc = "loop"]
       ELSE [t EXCEPT !.i = @ + 1, !.pc = "loop"]

\* _generate_segment_audio without a TTS service: None at once
SegmentWithoutService(b) ==
    LET t == tasks[b] IN
    /\ LoopReady(t)
    /\ t.i <= Len(t.segments)
    /\ ~vibevoice_service.attached
    /\ SetTask(b, [AfterSegment(t, NoAudio) EXCEPT
                      !.outcomes = Append(@, FALSE)])
    /\ UNCHANGED <<vibevoice_service, speaker_profiles, conversation_history,
                   annotated, method_call>>

\* _generate_segment_audio up to its await: the generate_speech call is made
\* with what self.speaker_profiles holds now.
IssueCall(b) ==
    LET t == tasks[b] IN
    /\ LoopReady(t)
    /\ t.i <= Len(t.segments)
    /\ vibevoice_service.attached
    /\ SetTask(b, [t EXCEPT
            !.pc = "await",
            !.calls = Append(@, [segment |-> t.i, pending |-> TRUE,
                                 args |-> BackendCall(t.segments[t.i],
                                                      speaker_profiles)])])
    /\ UNCHANGED <<vibevoice_service, speaker_profiles, conversation_history,
                   annotated, method_call>>

\* The awaited generate_speech call ends; the loop body runs to its end.
CallReturns(b) ==
    LET t == tasks[b] IN
    /\ t.pc = "await"
    /\ \E outcome \in BackendOutcomes :
         SetTask(b, [AfterSegment(t, SegmentAudio(outcome, t.i)) EXCEPT
                        !.outcomes = Append(@, outcome.kind = "audio"),
                        !.calls[Len(t.calls)].pending = FALSE])
    /\ UNCHANGED <<vibevoice_service, speaker_profiles, conversation_history,
                   annotated, method_call>>

\* After the loop: raise on no audio, else mix and build the metadata.
BuildResult(t, profiles) ==
    LET mix == MixConversationAudio(t.audio_segments) IN
    IF t.audio_segments = <<>> \/ mix.raised
    THEN [NoResult EXCEPT !.kind = "raised"]
    ELSE [kind |-> "returned", audio |-> mix.clips, mixed |-> t.audio_segments,
          total_duration |-> mix.ms,
          speaker_count |-> Cardinality(DOMAIN profiles),
          word_count |-> t.total_word_count,
          emotion_counts |-> t.emotion_distribution,
          segment_count |-> Len(t.segments)]

FinishBuild(b) ==
    LET t == tasks[b] IN
    /\ LoopReady(t)
    /\ t.i > Len(t.segments)
    /\ SetTask(b, [t EXCEPT !.pc = "done", !.result = BuildResult(t, speaker_profiles)])
    /\ UNCHANGED <<vibevoice_service, speaker_profiles, conversation_history,
                   annotated, method_call>>

\* Variant: CancelledError caught by "except Exception" in
\* _generate_segment_audio, the segment counts as failed and the loop goes on
CancelledBuild_Absorbed(t) ==
    [AfterSegment(t, NoAudio) EXCEPT
        !.outcomes = Append(@, FALSE),
        !.calls[Len(t.calls)].pending = FALSE,
        !.cancelled = TRUE]

\* The task is cancelled at the awaited generate_speech call: CancelledError, a
\* BaseException, passes "except Exception" in _generate_segment_audio and in
\* create_dynamic_conversation; the build ends with the exception.
CancelledBuild(t) ==
    [t EXCEPT !.pc = "done", !.cancelled = TRUE,
              !.calls[Len(t.calls)].pending = FALSE,
              !.result = [NoResult EXCEPT !.kind = "raised"]]

\* The caller's task is cancelled while a backend call is pending
Cancel(b) ==
    /\ tasks[b].pc = "await"
    /\ SetTask(b, CancelledBuild(tasks[b]))
    /\ UNCHANGED <<vibevoice_service, speaker_profiles, conversation_history,
                   annotated, method_call>>

\* The caller takes the result (or the exception); the task is free again.
Collect(b) ==
    /\ tasks[b].pc = "done"
    /\ SetTask(b, IdleTask)
    /\ UNCHANGED <<vibevoice_service, speaker_profiles, conversation_history,
                   annotated, method_call>>

\* ConversationEngine.__init__
Init ==
    /\ vibevoice_service \in Services
    /\ speaker_profiles = NoProfiles
    /\ conversation_history = <<>>
    /\ tasks = [b \in Tasks |-> IdleTask]
    /\ exclusive = [b \in Tasks |-> FALSE]
    /\ annotated = <<>>
    /\ method_call = <<>>

\* One caller at a time: exclusive is kept in SpecConc only
Next ==
    /\ \E b \in Tasks :
          \/ StartBuild(b)
          \/ SegmentWithoutService(b)
          \/ IssueCall(b)
          \/ CallReturns(b)
          \/ Cancel(b)
          \/ FinishBuild(b)
          \/ Collect(b)
    /\ UNCHANGED exclusive

Spec == Init /\ [][Next]_vars

\* ------------------------------------------- builds that are kept running
\* A step of the coroutine of build b: the event loop runs a coroutine that is
\* ready, and the awaited backend call is taken to return or raise in the end.
BuildStep(b) ==
    /\ SegmentWithoutService(b) \/ IssueCall(b) \/ CallReturns(b) \/ FinishBuild(b)
    /\ UNCHANGED exclusive

\* The builds that are kept running: scripts of plain lines, with and without
\* a mapping for Alice
LiveMappings == {<<>>, <<<<"Alice", "vibevoice-andrew">>>>}

LiveScripts ==
    SeqsUpTo({HeaderLine("Alice", <<"Hi there!">>), HeaderLine("Carol", <<"Hi there!">>),
              HeaderLine("Alice", <<>>)}, MaxLines)

StartBuildLive(b) == StartBuildWith(b, LiveMappings, LiveScripts)

NextLive ==
    /\ \E b \in Tasks :
          \/ StartBuildLive(b)
          \/ SegmentWithoutService(b)
          \/ IssueCall(b)
          \/ CallReturns(b)
          \/ Cancel(b)
          \/ FinishBuild(b)
          \/ Collect(b)
    /\ UNCHANGED exclusive

SpecLive == Init /\ [][NextLive]_vars /\ \A b \in Tasks : WF_vars(BuildStep(b))

\* ------------------------------------------- two callers on one engine
\* Two request handlers await create_dynamic_conversation on the same engine;
\* the event loop switches between them at the awaited backend calls. The
\* clear endpoint can run between any two steps.
ConcTasks == {1, 2}

ConcMappings ==
    {<<(<<"Alice", "vibevoice-andrew">>)>>,
     <<(<<"Alice", "nonexistent-voice-id">>), (<<"Bob", "vibevoice-andrew">>)>>}

ConcScripts == {<<HeaderLine("Alice", <<"Hi there!">>)>>}

InitConc ==
    /\ vibevoice_service \in Services
    /\ speaker_profiles = NoProfiles
    /\ conversation_history = <<>>
    /\ tasks = [b \in ConcTasks |-> IdleTask]
    /\ annotated = <<>>
    /\ method_call = <<>>
    /\ exclusive = [b \in ConcTasks |-> FALSE]

\* A caller enters create_dynamic_conversation. Its build has the engine to
\* itself if the profiles are empty and no other build is running; a build
\* that is running has it no longer.
StartBuildConc(b) ==
    /\ StartBuildWith(b, ConcMappings, ConcScripts)
    /\ exclusive' = [c \in ConcTasks |->
                        /\ c = b
                        /\ speaker_profiles = NoProfiles
                        /\ \A d \in ConcTasks \ {b} : tasks[d].pc = "idle"]

\* Variant: only the history is cleared
ClearConversationHistory_KeepsProfiles ==
    /\ conversation_history' = <<>>
    /\ exclusive' = [c \in ConcTasks |-> FALSE]
    /\ UNCHANGED <<vibevoice_service, speaker_profiles, tasks, annotated, method_call>>

\* clear_conversation_history
ClearConversationHistory ==
    /\ conversation_history' = <<>>
    /\ speaker_profiles' = NoProfiles
    /\ exclusive' = [c \in ConcTasks |-> FALSE]
    /\ UNCHANGED <<vibevoice_service, tasks, annotated, method_call>>

NextConc ==
    \/ \E b \in ConcTasks : StartBuildConc(b)
    \/ \E b \in ConcTasks : SegmentWithoutService(b) /\ UNCHANGED exclusive
    \/ \E b \in ConcTasks : IssueCall(b) /\ UNCHANGED exclusive
    \/ \E b \in ConcTasks : CallReturns(b) /\ UNCHANGED exclusive
    \/ \E b \in ConcTasks : Cancel(b) /\ UNCHANGED exclusive
    \/ \E b \in ConcTasks : FinishBuild(b) /\ UNCHANGED exclusive
    \/ \E b \in ConcTasks : Collect(b) /\ UNCHANGED exclusive
    \/ ClearConversationHistory

SpecConc == InitConc /\ [][NextConc]_vars

\* The voice a build's own speaker mapping gives a speaker: the requested
\* voice if the catalog has it, else the fallback of its rank among the
\* unresolved speakers of that mapping
OwnVoice(speaker_mapping, speaker, available_voices) ==
    LET k == CHOOSE j \in 1..Len(speaker_mapping) : speaker_mapping[j][1] = speaker
        unresolved == Cardinality({j \in 1..(k - 1) :
                                      speaker_mapping[j][2] \notin available_voices})
    IN IF speaker_mapping[k][2] \in available_voices THEN speaker_mapping[k][2]
       ELSE FallbackVoices[(unresolved % 3) + 1]

\* The index of a speaker among the sorted names of a build's own mapping
OwnIndex(speaker_mapping, speaker) ==
    Cardinality({j \in 1..Len(speaker_mapping) :
        \E a, c \in 1..Len(NameOrder) :
            /\ NameOrder[a] = speaker_mapping[j][1]
            /\ NameOrder[c] = speaker
            /\ a < c})

\* The call is what the build's own speaker mapping alone determines
DerivedFromOwnMapping(t, call) ==
    LET speaker == t.segments[call.segment].speaker
        many == Len(t.speaker_mapping) > 1
    IN /\ call.args.voice = OwnVoice(t.speaker_mapping, speaker,
                                     GetAvailableVoices(vibevoice_service))
       /\ call.args.multi_speaker = many
       /\ call.args.speaker_tag =
             (IF many THEN OwnIndex(t.speaker_mapping, speaker) ELSE -1)
       /\ Len(call.args.speaker_mapping) = (IF many THEN Len(t.speaker_mapping) ELSE 0)

AnnotateMapping == <<(<<"Alice", "vibevoice-alice">>)>>

AnnotateLines ==
    {HeaderLine("Alice", <<s>>) :
        s \in {"Good morning", "Hello, how are you?", "Hi there!"}}
    \cup {HeaderLine("Carol", <<"Good morning">>)}

AnnotateScripts == SeqsUpTo(AnnotateLines, MaxLines)

AnnotateReactionDraws == {NoReaction, [random |-> 0, reaction |-> "I see"]}

InitAnnotate ==
    /\ vibevoice_service = NoService
    /\ conversation_history = <<>>
    /\ tasks = [b \in Tasks |-> IdleTask]
    /\ exclusive = [b \in Tasks |-> FALSE]
    /\ method_call = <<>>
    /\ \E conversation_style \in ConversationStyle, script \in AnnotateScripts,
          add_natural_interactions \in BOOLEAN :
        \E draws \in [1..Len(AnnotateMapping) -> ProfileDraws(conversation_style)] :
          LET n == Len(ParseConversationScript(script))
          IN \E jitter \in [1..n -> JitterSamples],
                rdraws \in [1..(n - 1) ->
                              IF add_natural_interactions
                              THEN AnnotateReactionDraws ELSE {NoReaction}] :
               /\ speaker_profiles =
                     InitializeSpeakerProfiles(NoProfiles, AnnotateMapping, NoService, draws)
               /\ annotated =
                     [stage |-> "input", conversation_style |-> conversation_style,
                      script |-> script,
                      add_natural_interactions |-> add_natural_interactions,
                      jitter |-> jitter, rdraws |-> rdraws, segments |-> <<>>]

Annotate ==
    /\ annotated.stage = "input"
    /\ annotated' =
          [annotated EXCEPT
              !.stage = "output",
              !.segments = ParseAndEnhanceScript(
                  annotated.script, annotated.conversation_style,
                  annotated.add_natural_interactions, TRUE,
                  speaker_profiles, annotated.jitter, annotated.rdraws)]
    /\ UNCHANGED <<vibevoice_service, speaker_profiles, conversation_history, tasks,
                   exclusive,
                   method_call>>

NextAnnotate == Annotate

SpecAnnotate == InitAnnotate /\ [][NextAnnotate]_vars

\* ------------------------------------------------------------ properties
Done(t) == t.pc = "done"

Succeeded(t) == {k \in 1..Len(t.outcomes) : t.outcomes[k]}

Failed(t) == {k \in 1..Len(t.outcomes) : ~t.outcomes[k]}

Shape(clip) == <<clip.kind, clip.segment, IF clip.kind = "pause" THEN clip.ms ELSE 0>>

Shapes(clips) == [k \in 1..Len(clips) |-> Shape(clips[k])]

\* The speech and pause clips of the segments whose backend call returned
\* audio, in script order
RECURSIVE ExpectedShapes(_, _)
ExpectedShapes(t, k) ==
    IF k > Len(t.outcomes) THEN <<>>
    ELSE (IF t.outcomes[k]
          THEN <<(<<"speech", k, 0>>), (<<"pause", k, t.segments[k].pause_after>>)>>
          ELSE <<>>)
         \o ExpectedShapes(t, k + 1)

\* C1: a build in which the synthesis of some segment failed and that of
\* another succeeded returns, and the clips it handed to the mixer are the
\* speech and pause clips of exactly the successful segments, in script order.
C1_PartialFailureDegrades ==
    \A b \in Tasks :
        LET t == tasks[b] IN
        (Done(t) /\ ~t.cancelled /\ Succeeded(t) # {} /\ Failed(t) # {})
            => /\ t.result.kind = "returned"
               /\ Shapes(t.result.mixed) = ExpectedShapes(t, 1)
               /\ t.result.audio = t.result.mixed

C1_Witness ==
    \E b \in Tasks :
        /\ Done(tasks[b])
        /\ tasks[b].result.kind = "returned"
        /\ Len(tasks[b].segments) >= 2
        /\ tasks[b].outcomes[1] = FALSE
        /\ Succeeded(tasks[b]) # {}

\* C2: a build with no segments, or none whose synthesis succeeded, raises and
\* returns no audio; a build that returns has mixed the speech of at least one
\* synthesized segment.
C2_EmptyMixRaises ==
    \A b \in Tasks :
        LET t == tasks[b] IN
        Done(t) =>
            /\ t.result.kind \in {"returned", "raised"}
            /\ (Len(t.segments) = 0 \/ Succeeded(t) = {})
                    => (t.result.kind = "raised" /\ t.result.audio = <<>>)
            /\ t.result.kind = "returned"
                    => /\ Succeeded(t) # {}
                       /\ \E k \in 1..Len(t.result.audio) :
                              t.result.audio[k].kind = "speech"

C2_Witness ==
    \E b \in Tasks :
        /\ Done(tasks[b])
        /\ tasks[b].result.kind = "raised"
        /\ vibevoice_service.attached
        /\ Len(tasks[b].segments) >= 2

\* C3: the backend calls of a build are made one at a time in segment order:
\* the k-th call is the call for segment k, and only the latest call can be
\* outstanding.
C3_CallsSequentialInOrder ==
    \A b \in Tasks :
        LET t == tasks[b] IN
        /\ \A k \in 1..Len(t.calls) :
              /\ t.calls[k].segment = k
              /\ t.calls[k].pending => k = Len(t.calls)
        /\ Cardinality({k \in 1..Len(t.calls) : t.calls[k].pending}) <= 1

C3_Witness ==
    \E b \in Tasks :
        /\ Len(tasks[b].calls) >= 2
        /\ tasks[b].calls[Len(tasks[b].calls)].pending

MappingNames(speaker_mapping) ==
    {speaker_mapping[k][1] : k \in 1..Len(speaker_mapping)}

\* C4: during and after a build the keys of speaker_profiles are exactly the
\* speaker names of that build's speaker mapping.
C4_ProfilesRebuiltFresh ==
    \A b \in Tasks :
        tasks[b].pc # "idle"
            => DOMAIN speaker_profiles = MappingNames(tasks[b].speaker_mapping)

\* C5: a build whose speaker mapping and script name exactly one speaker makes
\* every backend call in single-speaker mode: no "Speaker N:" prefix, no
\* multi_speaker flag, no speaker mapping.
C5_SingleSpeakerMode ==
    \A b \in Tasks :
        LET t == tasks[b] IN
        (/\ Len(t.speaker_mapping) = 1
         /\ t.segments # <<>>
         /\ \A k \in 1..Len(t.segments) :
               t.segments[k].speaker = t.speaker_mapping[1][1])
            => \A k \in 1..Len(t.calls) :
                 /\ ~t.calls[k].args.multi_speaker
                 /\ t.calls[k].args.speaker_tag = -1
                 /\ t.calls[k].args.speaker_mapping = <<>>

\* The number of items before the k-th whose requested voice is not available
Unresolved(speaker_mapping, k, available_voices) ==
    Cardinality({j \in 1..(k - 1) : speaker_mapping[j][2] \notin available_voices})

\* C6: a speaker whose requested voice id is absent from the catalog gets a
\* fallback default, never the requested missing id, and successive unresolved
\* speakers get the fallbacks in rotation.
C6_FallbackNeverMissingId ==
    \A b \in Tasks :
        LET t == tasks[b]
            available_voices == GetAvailableVoices(vibevoice_service)
        IN t.pc # "idle" =>
            \A k \in 1..Len(t.speaker_mapping) :
                t.speaker_mapping[k][2] \notin available_voices =>
                    LET voice_id == speaker_profiles[t.speaker_mapping[k][1]].voice_id IN
                    /\ voice_id = FallbackVoices[
                          (Unresolved(t.speaker_mapping, k, available_voices) % 3) + 1]
                    /\ voice_id # t.speaker_mapping[k][2]

\* C7: the voice passed to the backend for a segment is the voice_id of the
\* profile of the segment's speaker, never the raw speaker name.
C7_VoiceFromProfile ==
    \A b \in Tasks :
        LET t == tasks[b] IN
        \A k \in 1..Len(t.calls) :
            LET speaker == t.segments[t.calls[k].segment].speaker IN
            /\ speaker \in DOMAIN speaker_profiles
            /\ t.calls[k].args.voice = speaker_profiles[speaker].voice_id
            /\ t.calls[k].args.voice # speaker

\* C8: in multi-speaker mode the tag of a call is the index of the segment's
\* speaker in the sorted speaker names, the mapping passed holds for each index
\* the voice_id of the name at that index, so the tag maps to the voice_id of the
\* segment's own speaker; a speaker has one index throughout the build.
C8_SpeakerTagMapsToOwnVoice ==
    \A b \in Tasks :
        LET t == tasks[b]
            speaker_names == SortedNames(speaker_profiles)
        IN \A k \in 1..Len(t.calls) :
            LET call == t.calls[k].args
                speaker == t.segments[t.calls[k].segment].speaker
            IN call.multi_speaker =>
                /\ speaker \in DOMAIN speaker_profiles
                /\ speaker_names[call.speaker_tag + 1] = speaker
                /\ Len(call.speaker_mapping) = Len(speaker_names)
                /\ \A j \in 1..Len(speaker_names) :
                      call.speaker_mapping[j] = speaker_profiles[speaker_names[j]].voice_id
                /\ call.speaker_mapping[call.speaker_tag + 1]
                      = speaker_profiles[speaker].voice_id
                /\ \A m \in 1..Len(t.calls) :
                      t.segments[t.calls[m].segment].speaker = speaker
                          => t.calls[m].args.speaker_tag = call.speaker_tag

\* C9: every segment the annotator returns, inserted reactions included, has
\* pause_before >= 0.1 s and pause_after >= 0.2 s.
C9_PauseMinimums ==
    annotated.stage = "output" =>
        \A k \in 1..Len(annotated.segments) :
            /\ annotated.segments[k].pause_before >= 100
            /\ annotated.segments[k].pause_after >= 200

\* A debate segment whose pause_after, 0.4 s x 0.5 - 0.2 s before the clamp,
\* was raised to the minimum, followed by an inserted reaction
C9_Witness ==
    /\ annotated.stage = "output"
    /\ annotated.conversation_style = "debate"
    /\ Len(annotated.segments) >= 2
    /\ annotated.segments[1].text = <<"Good morning">>
    /\ BasePauses(<<"Good morning">>, annotated.segments[1].speaker, None,
                  "debate", speaker_profiles)[2] + annotated.jitter[1][2] < 200
    /\ annotated.segments[1].pause_after = 200
    /\ annotated.segments[2].text = <<"I see">>

\* C17: a build cancelled while a backend call is pending ends there: the
\* cancellation is not recorded as a failed segment, the loop does not go on to
\* another call (the cancelled call is the last one, made for segment i), and
\* the build raises, without audio and without metadata.
C17_CancellationEndsBuild ==
    \A b \in Tasks :
        LET t == tasks[b] IN
        t.cancelled =>
            /\ t.pc = "done"
            /\ t.result = [NoResult EXCEPT !.kind = "raised"]
            /\ Len(t.calls) = t.i
            /\ t.calls[t.i].segment = t.i
            /\ Len(t.outcomes) = t.i - 1
            /\ \A k \in 1..Len(t.calls) : ~t.calls[k].pending

\* Cancelled during the call for the first of two segments, after which no call
\* for the second was made
C17_Witness ==
    \E b \in Tasks :
        /\ tasks[b].cancelled
        /\ Len(tasks[b].segments) >= 2
        /\ Len(tasks[b].calls) = 1

\* get_conversation_analytics, its count of what the engine has kept
GetConversationAnalytics ==
    [total_conversations |-> Len(conversation_history),
     speaker_statistics |->
        [n \in DOMAIN speaker_profiles |->
            Cardinality({k \in 1..Len(conversation_history) :
                            conversation_history[k].speaker = n})]]

\* C18: an engine kept across calls accumulates history: once a build has
\* returned, with no clear since, conversation_history holds the segments of
\* that build and the total the analytics report counts them.
C18_HistoryAccumulates ==
    \A b \in Tasks :
        LET t == tasks[b] IN
        (t.pc = "done" /\ t.result.kind = "returned") =>
            /\ \A k \in 1..Len(t.segments) :
                   \E h \in 1..Len(conversation_history) :
                       conversation_history[h] = t.segments[k]
            /\ GetConversationAnalytics.total_conversations >= Len(t.segments)

\* C20: with a TTS service attached generate_speech is called once per
\* segment, in segment order and never again for a segment whose call failed:
\* a build that ran to completion made as many backend calls as it has
\* segments.
C20_OneCallPerSegment ==
    \A b \in Tasks :
        LET t == tasks[b] IN
        vibevoice_service.attached =>
            /\ \A j, k \in 1..Len(t.calls) :
                   j < k => t.calls[j].segment < t.calls[k].segment
            /\ \A k \in 1..Len(t.calls) : t.calls[k].segment \in 1..Len(t.segments)
            /\ (t.pc = "done" /\ ~t.cancelled) =>
                   /\ Len(t.calls) = Len(t.segments)
                   /\ \A k \in 1..Len(t.calls) : t.calls[k].segment = k

\* A completed build of two segments whose first call failed
C20_Witness ==
    \E b \in Tasks :
        /\ vibevoice_service.attached
        /\ tasks[b].pc = "done" /\ ~tasks[b].cancelled
        /\ Len(tasks[b].segments) = 2
        /\ Len(tasks[b].calls) = 2
        /\ tasks[b].outcomes = <<FALSE, TRUE>>

\* The clips of segments k.. of a build: for each segment whose synthesis
\* succeeded its speech clip, then a pause clip of its pause_after
RECURSIVE ClipsWithPauses(_, _)
ClipsWithPauses(t, k) ==
    IF k > Len(t.outcomes) THEN <<>>
    ELSE (IF t.outcomes[k]
          THEN <<SegmentAudio(CHOOSE o \in BackendOutcomes : o.kind = "audio", k),
                 [kind |-> "pause", segment |-> k, ms |-> t.segments[k].pause_after]>>
          ELSE <<>>)
         \o ClipsWithPauses(t, k + 1)

RECURSIVE PausesAfter(_, _)
PausesAfter(t, k) ==
    IF k > Len(t.outcomes) THEN 0
    ELSE (IF t.outcomes[k] THEN t.segments[k].pause_after ELSE 0) + PausesAfter(t, k + 1)

\* C23: the clip list handed to the mixer is, for the synthesized segments in
\* script order, each segment's clip directly followed by one pause clip of
\* its pause_after; every pause_after is at least 0.2 s, so no pause clip is
\* skipped; the mixed length is the sum of the speech clip lengths and of those
\* pauses, pause_before adding nothing.
C23_ClipsAndPauses ==
    \A b \in Tasks :
        LET t == tasks[b] IN
        /\ \A k \in 1..Len(t.segments) : t.segments[k].pause_after >= 200
        /\ (t.pc = "done" /\ t.result.kind = "returned") =>
              LET speech == SelectSeq(t.result.mixed, LAMBDA c : c.kind = "speech") IN
              /\ t.result.mixed = ClipsWithPauses(t, 1)
              /\ t.result.audio = t.result.mixed
              /\ t.result.total_duration = TotalMs(speech) + PausesAfter(t, 1)

\* A returned build with an inserted reaction whose synthesis failed between
\* two synthesized segments
C23_Witness ==
    \E b \in Tasks :
        /\ tasks[b].pc = "done" /\ tasks[b].result.kind = "returned"
        /\ tasks[b].outcomes = <<TRUE, FALSE, TRUE>>
        /\ Len(tasks[b].result.mixed) = 4

\* C27: if every backend call returns or raises in the end, every build ends,
\* returning audio and metadata or raising; and as long as a backend call has
\* not returned the build is not complete and no call for a later segment is
\* issued.
C27_BuildsTerminate ==
    \A b \in Tasks :
        /\ (tasks[b].pc \in {"loop", "await"}) ~>
              (tasks[b].pc = "done" /\ tasks[b].result.kind \in {"returned", "raised"})
        /\ [](\A k \in 1..Len(tasks[b].calls) :
                 tasks[b].calls[k].pending =>
                    /\ tasks[b].pc = "await"
                    /\ tasks[b].result.kind = "none"
                    /\ k = Len(tasks[b].calls)
                    /\ tasks[b].calls[k].segment = tasks[b].i)

\* A build of two segments that ended after both of its calls had failed
C27_Witness ==
    \E b \in Tasks :
        /\ tasks[b].pc = "done" /\ ~tasks[b].cancelled
        /\ Len(tasks[b].calls) = 2
        /\ tasks[b].outcomes = <<FALSE, FALSE>>
        /\ tasks[b].result.kind = "raised"

\* C29: clear_conversation_history leaves conversation_history and
\* speaker_profiles empty, the analytics then report zero conversations and no
\* speaker statistics, the TTS service reference is unchanged, and a build
\* started next resolves its voices and chooses its mode as on a fresh engine.
C29_ClearResetsEngine ==
    [][ClearConversationHistory =>
          /\ conversation_history' = <<>>
          /\ speaker_profiles' = NoProfiles
          /\ GetConversationAnalytics'.total_conversations = 0
          /\ DOMAIN GetConversationAnalytics'.speaker_statistics = {}
          /\ vibevoice_service' = vibevoice_service
          /\ \A speaker_mapping \in ConcMappings :
                \A draws \in [1..Len(speaker_mapping) -> BuildProfileDraws("natural")] :
                   LET next == InitializeSpeakerProfiles(speaker_profiles', speaker_mapping,
                                                         vibevoice_service', draws)
                       fresh == InitializeSpeakerProfiles(NoProfiles, speaker_mapping,
                                                          vibevoice_service, draws)
                   IN next = fresh /\ MultiSpeakerMode(next) = MultiSpeakerMode(fresh)
      ]_vars

\* The engine after a clear that followed a build with a speaker mapping
C29_Witness ==
    /\ speaker_profiles = NoProfiles
    /\ conversation_history = <<>>
    /\ \E b \in ConcTasks :
          tasks[b].pc = "done" /\ tasks[b].speaker_mapping # <<>>

\* C13: the text of a backend call holds no Markdown asterisk and no '#' header
\* marker, wherever they stand in the segment text: the segment text
\* '**Hello** there, *friend*! ### Not a header' is sent as
\* 'Hello there, friend! Not a header'.
C13_NoMarkdownReachesBackend ==
    \A b \in Tasks :
        LET t == tasks[b] IN
        \A k \in 1..Len(t.calls) :
            LET segment == t.segments[t.calls[k].segment]
                sent == CleanMarkdown(TextTokens(segment.text, 1))
            IN /\ t.calls[k].args.text = Join(sent)
               /\ \A j \in 1..Len(sent) : sent[j] \notin {"*", "#"}
               /\ segment.text = <<"**Hello** there, *friend*! ### Not a header">>
                     => t.calls[k].args.text = "Hello there, friend! Not a header"

\* ------------------------------------------- the background sound volume
\* The way of background_sound_volume from the caller into the two gain
\* computations. Gains are integers in tenths of a dB (-30 dB = -300), so
\* (background_sound_volume - 50) * 0.3 dB is 3 * (background_sound_volume - 50).
BasePauseGain == -300

\* style_base_gains
StyleBaseGains ==
    [style \in ConversationStyle |->
        CASE style = "podcast" -> -250
          [] style = "casual" -> -200
          [] style = "debate" -> -280
          [] style = "interview" -> -230
          [] style = "natural" -> -220
          [] style = "formal" -> -270
          [] style = "dramatic" -> -180]

Min(a, b) == IF a <= b THEN a ELSE b

\* _generate_natural_pause: final_gain = base_pause_gain + volume_adjustment
PauseBedGain(background_sound_volume) ==
    BasePauseGain + 3 * (background_sound_volume - 50)

\* Variant: the final gain without its clamp
FinalMixGain_Unclamped(conversation_style, background_sound_volume) ==
    StyleBaseGains[conversation_style] + 3 * (background_sound_volume - 50)

\* _mix_conversation_audio: final_gain = max(-50, min(-5, base_gain + volume_adjustment))
FinalMixGain(conversation_style, background_sound_volume) ==
    Max(-500, Min(-50, StyleBaseGains[conversation_style]
                          + 3 * (background_sound_volume - 50)))

\* What the import and the calls of the background sound generator can do:
\* work, fail with ImportError, fail with another exception
GeneratorOutcomes == {"available", "unavailable", "raises"}

\* Variant: a failure of the generator under a pause is not caught, the
\* method's outer handler returns None
PauseClip_NoFallback(duration, include_background_sound, generator, background_sound_volume) ==
    IF duration < 100 \/ (include_background_sound /\ generator # "available")
    THEN [kind |-> "none", ms |-> 0, gain |-> 0]
    ELSE IF include_background_sound
    THEN [kind |-> "background", ms |-> duration,
          gain |-> PauseBedGain(background_sound_volume)]
    ELSE [kind |-> "silence", ms |-> duration, gain |-> 0]

\* _generate_natural_pause: None under 0.1 s; with background sound the
\* generated bed of the pause's duration at the pause-bed gain; silence of
\* that duration without background sound and when the generator fails
PauseClip(duration, include_background_sound, generator, background_sound_volume) ==
    IF duration < 100 THEN [kind |-> "none", ms |-> 0, gain |-> 0]
    ELSE IF include_background_sound /\ generator = "available"
    THEN [kind |-> "background", ms |-> duration,
          gain |-> PauseBedGain(background_sound_volume)]
    ELSE [kind |-> "silence", ms |-> duration, gain |-> 0]

\* _mix_conversation_audio on clips of ms milliseconds in all: the bed is
\* overlaid at the final gain, or left out when the generator fails
FinalAudio(ms, conversation_style, include_background_sound, generator, background_sound_volume) ==
    IF include_background_sound /\ generator = "available"
    THEN [raised |-> FALSE, ms |-> ms, background |-> TRUE,
          gain |-> FinalMixGain(conversation_style, background_sound_volume)]
    ELSE [raised |-> FALSE, ms |-> ms, background |-> FALSE, gain |-> 0]

\* The length of the synthesized clip of the one segment of these builds and
\* its pause_after, in ms
BedClipMs == 700
BedPauseMs == 300

\* The values a caller can put into the form field background_sound_volume
VolumeSamples == {-20, 0, 9, 10, 50, 100, 101, 250}

InitBackground ==
    /\ vibevoice_service = NoService
    /\ speaker_profiles = NoProfiles
    /\ conversation_history = <<>>
    /\ tasks = [b \in Tasks |-> IdleTask]
    /\ exclusive = [b \in Tasks |-> FALSE]
    /\ annotated = <<>>
    /\ \E conversation_style \in ConversationStyle, volume \in VolumeSamples,
          include_background_sound \in BOOLEAN, generator \in GeneratorOutcomes :
          method_call = [stage |-> "called", conversation_style |-> conversation_style,
                         include_background_sound |-> include_background_sound,
                         generator |-> generator,
                         requested_volume |-> volume,
                         background_sound_volume |-> volume,
                         pause_clip |-> [kind |-> "none", ms |-> 0, gain |-> 0],
                         final_audio |-> [raised |-> FALSE, ms |-> 0,
                                          background |-> FALSE, gain |-> 0],
                         pause_gain |-> 0, mix_gain |-> 0]

\* create_dynamic_conversation takes background_sound_volume as it is given
\* and passes it on; the endpoint does the same with the form field.
EnterWithVolume ==
    /\ method_call.stage = "called"
    /\ method_call' = [method_call EXCEPT
                          !.stage = "entered",
                          !.background_sound_volume = method_call.requested_volume]
    /\ UNCHANGED <<vibevoice_service, speaker_profiles, conversation_history, tasks,
                   exclusive,
                   annotated>>

\* _generate_natural_pause after a synthesized segment
PauseBed ==
    /\ method_call.stage = "entered"
    /\ LET clip == PauseClip(BedPauseMs, method_call.include_background_sound,
                             method_call.generator, method_call.background_sound_volume)
       IN method_call' = [method_call EXCEPT
                             !.stage = "paused",
                             !.pause_clip = clip,
                             !.pause_gain = clip.gain]
    /\ UNCHANGED <<vibevoice_service, speaker_profiles, conversation_history, tasks,
                   exclusive,
                   annotated>>

\* _mix_conversation_audio
FinalMix ==
    /\ method_call.stage = "paused"
    /\ LET final == FinalAudio(BedClipMs + method_call.pause_clip.ms,
                               method_call.conversation_style,
                               method_call.include_background_sound,
                               method_call.generator, method_call.background_sound_volume)
       IN method_call' = [method_call EXCEPT
                             !.stage = "mixed",
                             !.final_audio = final,
                             !.mix_gain = final.gain]
    /\ UNCHANGED <<vibevoice_service, speaker_profiles, conversation_history, tasks,
                   exclusive,
                   annotated>>

NextBackground == EnterWithVolume \/ PauseBed \/ FinalMix

SpecBackground == InitBackground /\ [][NextBackground]_vars

\* C24: for every style and every background volume in 10..100 the gain of
\* the background bed in the final mix is base_gain(style) + (volume - 50) x 0.3
\* clamped into [-50, -5] dB: never above -5 dB, never below -50 dB.
C24_FinalGainClamped ==
    (/\ method_call.stage = "mixed" /\ method_call.include_background_sound
     /\ method_call.final_audio.background
     /\ method_call.background_sound_volume \in 10..100) =>
        LET unclamped == StyleBaseGains[method_call.conversation_style]
                            + 3 * (method_call.background_sound_volume - 50)
        IN /\ method_call.mix_gain <= -50
           /\ method_call.mix_gain >= -500
           /\ method_call.mix_gain =
                 (IF unclamped > -50 THEN -50
                  ELSE IF unclamped < -500 THEN -500 ELSE unclamped)

\* The dramatic style at full volume: -18 + 15 = -3 dB, clamped to -5 dB
C24_Witness ==
    /\ method_call.stage = "mixed" /\ method_call.include_background_sound
    /\ method_call.final_audio.background
    /\ method_call.conversation_style = "dramatic"
    /\ method_call.background_sound_volume = 100
    /\ method_call.mix_gain = -50

\* C15: a background_sound_volume outside 10..100 is rejected or clamped into
\* the range before any gain is computed: the volume that enters the pause-bed
\* gain and the final-mix gain lies in 10..100.
C15_VolumeValidated ==
    (/\ method_call.stage \in {"paused", "mixed"}
     /\ method_call.pause_clip.kind = "background")
        => /\ method_call.background_sound_volume \in 10..100
           /\ method_call.pause_gain
                 \in PauseBedGain(10)..PauseBedGain(100)

\* C30: a failure of the background sound generator never fails a build: when
\* it is unavailable or raises under a pause, the pause is silence of the same
\* duration; when it is unavailable or raises in the final mix, the mix is
\* returned without background, its length unchanged.
C30_GeneratorFailureDegrades ==
    (/\ method_call.stage \in {"paused", "mixed"}
     /\ method_call.include_background_sound
     /\ method_call.generator # "available") =>
        /\ method_call.pause_clip = [kind |-> "silence", ms |-> BedPauseMs, gain |-> 0]
        /\ method_call.stage = "mixed" =>
              /\ ~method_call.final_audio.raised
              /\ ~method_call.final_audio.background
              /\ method_call.final_audio.ms = BedClipMs + BedPauseMs

\* A mix returned after the generator raised under the pause and in the mix
C30_Witness ==
    /\ method_call.stage = "mixed"
    /\ method_call.include_background_sound
    /\ method_call.generator = "raises"
    /\ method_call.final_audio.ms = BedClipMs + BedPauseMs

\* ------------------------------------------------ the parser on its own
\* _parse_conversation_script called on every script of up to MaxLines
\* non-empty lines: headers with and without inline text, lines without header.
ParseSampleLines ==
    {HeaderLine(n, text) : n \in {"Alice", "Bob"},
                           text \in {<<>>, <<"Hi there!">>, <<"Good morning">>}}
    \cup {OtherLine(<<"Hi there!">>), OtherLine(<<"Good morning">>)}

InitParse ==
    /\ vibevoice_service = NoService
    /\ speaker_profiles = NoProfiles
    /\ conversation_history = <<>>
    /\ tasks = [b \in Tasks |-> IdleTask]
    /\ exclusive = [b \in Tasks |-> FALSE]
    /\ annotated = <<>>
    /\ \E script \in SeqsUpTo(ParseSampleLines, MaxLines) :
          method_call = [stage |-> "input", script |-> script, segments |-> <<>>]

Parse ==
    /\ method_call.stage = "input"
    /\ method_call' = [method_call EXCEPT
                          !.stage = "output",
                          !.segments = ParseConversationScript(method_call.script)]
    /\ UNCHANGED <<vibevoice_service, speaker_profiles, conversation_history, tasks,
                   exclusive,
                   annotated>>

NextParse == Parse

SpecParse == InitParse /\ [][NextParse]_vars

\* The script "<speaker>: <text>" line by line over the returned pairs
Reconstructed(segments) ==
    [k \in 1..Len(segments) |-> HeaderLine(segments[k][1], segments[k][2])]

AllTagged(script) == \A k \in 1..Len(script) : script[k].speaker # None

AllTaggedWithText(script) ==
    \A k \in 1..Len(script) : script[k].speaker # None /\ script[k].text # <<>>

\* C14 as stated: for a script whose lines are all speaker headers, with or
\* without inline text, joining "<speaker>: <text>" over the returned pairs
\* gives the script back: no tagged line is lost, merged or re-attributed.
C14_RoundTripAnyTagged ==
    (method_call.stage = "output" /\ AllTagged(method_call.script))
        => Reconstructed(method_call.segments) = method_call.script

\* C14, amended: for a script whose lines are all speaker headers with
\* non-empty inline text, joining "<speaker>: <text>" over the returned pairs
\* gives the script back; a header without text yields no pair.
C14_RoundTripTaggedWithText ==
    (method_call.stage = "output" /\ AllTaggedWithText(method_call.script))
        => Reconstructed(method_call.segments) = method_call.script

\* Two tagged lines of the same speaker, parsed into two pairs
C14_Witness ==
    /\ method_call.stage = "output"
    /\ AllTaggedWithText(method_call.script)
    /\ Len(method_call.script) = 2
    /\ method_call.script[1].speaker = method_call.script[2].speaker
    /\ Len(method_call.segments) = 2

\* ------------------------------------------- the speaker patterns on their own
\* The text before the first colon of a stripped line, as a sequence of tokens:
\* "U" an upper-case letter, "l" a lower-case letter, "d" a digit, " " a space,
\* and the literals "Speaker", "[S" and "]".
PrefixTokens == {"U", "l", "d", " ", "Speaker", "[S", "]"}

IsLetters(c) == c \in {"U", "l", "Speaker"}

\* The index of the last token of prefix that is not a space (0 if none)
RECURSIVE LastNonSpace(_, _)
LastNonSpace(prefix, k) ==
    IF k = 0 \/ prefix[k] # " " THEN k ELSE LastNonSpace(prefix, k - 1)

\* match.group(1).strip() of a matching line
Stripped(prefix) == SubSeq(prefix, 1, LastNonSpace(prefix, Len(prefix)))

\* The three speaker_patterns under re.IGNORECASE, on the text before the
\* colon: "Speaker \d+" and "\[S\d+\]" (a following "\s*" allowed), and, from
\* "[A-Z][a-zA-Z\s]*", "[A-Z][A-Z\s]+" and "[A-Za-z]+", any letter followed by
\* letters and whitespace, the case of the letters being ignored.
SpeakerPatternMatches(prefix) ==
    LET core == Stripped(prefix)
        n == Len(core)
    IN \/ /\ n >= 3 /\ core[1] = "Speaker" /\ core[2] = " "
          /\ \A k \in 3..n : core[k] = "d"
       \/ /\ n >= 3 /\ core[1] = "[S" /\ core[n] = "]"
          /\ \A k \in 2..(n - 1) : core[k] = "d"
       \/ /\ n >= 1 /\ IsLetters(prefix[1])
          /\ \A k \in 2..Len(prefix) : IsLetters(prefix[k]) \/ prefix[k] = " "

RECURSIVE Concat(_)
Concat(tokens) == IF tokens = <<>> THEN "" ELSE Head(tokens) \o Concat(Tail(tokens))

\* A stripped line "<prefix>:<text>" as the parser's loop classifies it: a
\* header of speaker group(1).strip() when a pattern matches, otherwise a line
\* of text
ClassifyLine(prefix, text) ==
    IF SpeakerPatternMatches(prefix)
    THEN HeaderLine(Concat(Stripped(prefix)), text)
    ELSE OtherLine(<<Concat(prefix) \o ":">> \o text)

\* The texts before a colon: a stripped line does not start with a space
Prefixes == {q \in SeqsUpTo(PrefixTokens, MaxPrefix) : q # <<>> /\ q[1] # " "}

\* _parse_conversation_script called on "Alice: Hi there!" followed by a line
\* "<prefix>: <text>" for every prefix.
InitSpeaker ==
    /\ vibevoice_service = NoService
    /\ speaker_profiles = NoProfiles
    /\ conversation_history = <<>>
    /\ tasks = [b \in Tasks |-> IdleTask]
    /\ exclusive = [b \in Tasks |-> FALSE]
    /\ annotated = <<>>
    /\ \E prefix \in Prefixes, text \in {<<>>, <<"Good morning">>} :
          method_call = [stage |-> "input", prefix |-> prefix, text |-> text,
                         script |-> <<>>, segments |-> <<>>]

MatchAndParse ==
    /\ method_call.stage = "input"
    /\ LET script == <<HeaderLine("Alice", <<"Hi there!">>),
                       ClassifyLine(method_call.prefix, method_call.text)>>
       IN method_call' = [method_call EXCEPT
                             !.stage = "output", !.script = script,
                             !.segments = ParseConversationScript(script)]
    /\ UNCHANGED <<vibevoice_service, speaker_profiles, conversation_history, tasks,
                   exclusive, annotated>>

NextSpeaker == MatchAndParse

SpecSpeaker == InitSpeaker /\ [][NextSpeaker]_vars

\* A title-case word: an upper-case letter followed by lower-case letters
\* from position i up to the next space or the end; the position after it
RECURSIVE WordEnd(_, _)
WordEnd(prefix, i) ==
    IF i <= Len(prefix) /\ prefix[i] = "l" THEN WordEnd(prefix, i + 1) ELSE i

RECURSIVE TitleWordsFrom(_, _)
TitleWordsFrom(prefix, i) ==
    /\ i <= Len(prefix)
    /\ prefix[i] \in {"U", "Speaker"}
    /\ LET j == WordEnd(prefix, i + 1) IN
       \/ j > Len(prefix)
       \/ prefix[j] = " " /\ TitleWordsFrom(prefix, j + 1)

\* The forms listed for a speaker header: "Speaker <digits>", "[S<digits>]"
\* (Host, Guest, Interviewer and Interviewee are title-case words), an
\* ALL-CAPS name, a title-case name "Word[ Word]*"
ListedForm(prefix) ==
    LET n == Len(prefix) IN
    \/ /\ n >= 3 /\ prefix[1] = "Speaker" /\ prefix[2] = " "
       /\ \A k \in 3..n : prefix[k] = "d"
    \/ /\ n >= 3 /\ prefix[1] = "[S" /\ prefix[n] = "]"
       /\ \A k \in 2..(n - 1) : prefix[k] = "d"
    \/ /\ n >= 2 /\ prefix[1] = "U"
       /\ \A k \in 2..n : prefix[k] \in {"U", " "}
    \/ TitleWordsFrom(prefix, 1)

\* C25: a line is a speaker header only if the text before its colon has one
\* of the listed forms; any other line with a colon inside a speaker's turn,
\* such as one starting with a lower-case word ('well: ...'), is appended to
\* the current speaker's text: no new segment, no new speaker.
C25_HeaderOnlyListedForms ==
    (method_call.stage = "output" /\ ~ListedForm(Stripped(method_call.prefix))) =>
        /\ method_call.script[2].speaker = None
        /\ Len(method_call.segments) = 1
        /\ method_call.segments[1][1] = "Alice"
        /\ method_call.segments[1][2] = <<"Hi there!">> \o method_call.script[2].text

\* ------------------------------------- the interaction complexity on its own
\* The counters of _calculate_interaction_complexity over segments[k..]
RECURSIVE SpeakerChanges(_, _)
SpeakerChanges(segments, k) ==
    IF k > Len(segments) THEN 0
    ELSE (IF k > 1 /\ segments[k].speaker # segments[k - 1].speaker THEN 1 ELSE 0)
         + SpeakerChanges(segments, k + 1)

RECURSIVE QuestionsAndShort(_, _)
QuestionsAndShort(segments, k) ==
    IF k > Len(segments) THEN 0
    ELSE (IF HasQuestion(segments[k].text) THEN 1 ELSE 0)
         + (IF WordCount(segments[k].text) < 5 THEN 1 ELSE 0)
         + QuestionsAndShort(segments, k + 1)

EmotionsUsed(segments) == {segments[k].emotion : k \in 1..Len(segments)}

\* _calculate_interaction_complexity, as the fraction num / den: with n
\* segments, (changes/n + used/10 + density/n) / 3 is
\* (10 changes + n used + 10 density) / (30 n), capped at 1.
CalculateInteractionComplexity(segments) ==
    LET n == Len(segments) IN
    IF n < 2 THEN [num |-> 0, den |-> 1]
    ELSE [num |-> Min(30 * n,
                      10 * SpeakerChanges(segments, 1)
                      + n * Cardinality(EmotionsUsed(segments))
                      + 10 * QuestionsAndShort(segments, 1)),
          den |-> 30 * n]

ComplexitySegments ==
    {[speaker |-> n, text |-> <<s>>, emotion |-> e] :
        n \in {"Alice", "Bob"},
        s \in {"Really?", "Hello, how are you?", "I agree, however we should wait"},
        e \in {"neutral", "excited"}}

InitComplexity ==
    /\ vibevoice_service = NoService
    /\ speaker_profiles = NoProfiles
    /\ conversation_history = <<>>
    /\ tasks = [b \in Tasks |-> IdleTask]
    /\ exclusive = [b \in Tasks |-> FALSE]
    /\ annotated = <<>>
    /\ \E segments \in SeqsUpTo(ComplexitySegments, MaxLines + 1) :
          method_call = [stage |-> "input", segments |-> segments,
                         complexity |-> [num |-> 0, den |-> 1]]

Complexity ==
    /\ method_call.stage = "input"
    /\ method_call' = [method_call EXCEPT
            !.stage = "output",
            !.complexity = CalculateInteractionComplexity(method_call.segments)]
    /\ UNCHANGED <<vibevoice_service, speaker_profiles, conversation_history, tasks,
                   exclusive, annotated>>

NextComplexity == Complexity

SpecComplexity == InitComplexity /\ [][NextComplexity]_vars

\* C26: for at least two segments interaction_complexity lies in [0, 1] and is
\* the average of speaker changes / segments, distinct emotions / number of
\* EmotionType members and (questions + short utterances) / segments, each
\* ratio clamped to [0, 1] before averaging: a segment that is both a question
\* and shorter than five words cannot push the density term above 1.
C26_ComplexityOfClampedRatios ==
    (method_call.stage = "output" /\ Len(method_call.segments) >= 2) =>
        LET segments == method_call.segments
            n == Len(segments)
            c == method_call.complexity
        IN /\ 0 <= c.num /\ c.num <= c.den
           /\ c.den = 30 * n
           /\ c.num = 10 * Min(n, SpeakerChanges(segments, 1))
                      + n * Min(Len(EmotionType), Cardinality(EmotionsUsed(segments)))
                      + 10 * Min(n, QuestionsAndShort(segments, 1))

\* The text of the lines without header from line i up to the next header
RECURSIVE Continuation(_, _)
Continuation(script, i) ==
    IF i > Len(script) \/ script[i].speaker # None THEN <<>>
    ELSE script[i].text \o Continuation(script, i + 1)

\* For each header line from line i on, in order, its speaker with its inline
\* text and continuation lines, where that text is not empty
RECURSIVE TurnsFrom(_, _)
TurnsFrom(script, i) ==
    IF i > Len(script) THEN <<>>
    ELSE IF script[i].speaker = None THEN TurnsFrom(script, i + 1)
    ELSE LET text == script[i].text \o Continuation(script, i + 1) IN
         (IF text # <<>> THEN <<<<script[i].speaker, text>>>> ELSE <<>>)
         \o TurnsFrom(script, i + 1)

\* C28: every pair _parse_conversation_script returns has a non-empty speaker
\* and a non-empty text; the pairs appear in the order of their header lines;
\* the text of lines before the first header is in no pair; a header without
\* inline text and without continuation lines before the next header or the
\* end gives no pair.
C28_PairsOfTurns ==
    method_call.stage = "output" =>
        /\ \A k \in 1..Len(method_call.segments) :
              /\ method_call.segments[k][1] # None
              /\ method_call.segments[k][2] # <<>>
        /\ method_call.segments = TurnsFrom(method_call.script, 1)

\* A line without header before the first header: its text is dropped
C28_Witness ==
    /\ method_call.stage = "output"
    /\ Len(method_call.script) = 2
    /\ method_call.script[1].speaker = None
    /\ method_call.script[2].speaker # None
    /\ method_call.segments = <<<<method_call.script[2].speaker, method_call.script[2].text>>>>

\* ------------------------------------------ the Markdown cleaner on its own
\* _clean_markdown_for_tts called on every text of up to MaxTokens tokens, and
\* again on its own result.
CleanTokens == {"*", "#", " ", "a"}

InitClean ==
    /\ vibevoice_service = NoService
    /\ speaker_profiles = NoProfiles
    /\ conversation_history = <<>>
    /\ tasks = [b \in Tasks |-> IdleTask]
    /\ exclusive = [b \in Tasks |-> FALSE]
    /\ annotated = <<>>
    /\ \E text \in SeqsUpTo(CleanTokens, MaxTokens) :
          method_call = [stage |-> "input", text |-> text, once |-> <<>>, twice |-> <<>>]

Clean ==
    /\ method_call.stage = "input"
    /\ method_call' = [method_call EXCEPT
                          !.stage = "once", !.once = CleanMarkdown(method_call.text)]
    /\ UNCHANGED <<vibevoice_service, speaker_profiles, conversation_history, tasks,
                   exclusive,
                   annotated>>

CleanAgain ==
    /\ method_call.stage = "once"
    /\ method_call' = [method_call EXCEPT
                          !.stage = "twice", !.twice = CleanMarkdown(method_call.once)]
    /\ UNCHANGED <<vibevoice_service, speaker_profiles, conversation_history, tasks,
                   exclusive,
                   annotated>>

NextClean == Clean \/ CleanAgain

SpecClean == InitClean /\ [][NextClean]_vars

\* A text without Markdown characters and without redundant whitespace
IsCleanText(t) ==
    /\ \A k \in 1..Len(t) : t[k] \notin {"*", "#"}
    /\ t # <<>> => (t[1] # " " /\ t[Len(t)] # " ")
    /\ \A k \in 1..(Len(t) - 1) : ~(t[k] = " " /\ t[k + 1] = " ")

\* C12: _clean_markdown_for_tts is idempotent, clean(clean(x)) = clean(x) for
\* every text x, and returns a text without Markdown and without redundant
\* whitespace unchanged.
C12_CleanIdempotent ==
    /\ method_call.stage = "twice" => method_call.twice = method_call.once
    /\ (method_call.stage \in {"once", "twice"} /\ IsCleanText(method_call.text))
            => method_call.once = method_call.text

\* ------------------------------------------ the emotion detector on its own
\* _detect_emotion called on texts of up to MaxLines sentences, after every
\* previous emotion.
EmotionSentences ==
    {"Hi there!", "I am so sorry", "Exactly", "Oh no, I am so sorry", "I am glad"}

InitEmotion ==
    /\ vibevoice_service = NoService
    /\ speaker_profiles = NoProfiles
    /\ conversation_history = <<>>
    /\ tasks = [b \in Tasks |-> IdleTask]
    /\ exclusive = [b \in Tasks |-> FALSE]
    /\ annotated = <<>>
    /\ \E text \in SeqsUpTo(EmotionSentences, MaxLines), previous_emotion \in Emotions :
          method_call = [stage |-> "input", text |-> text,
                         previous_emotion |-> previous_emotion, emotion |-> None]

Detect ==
    /\ method_call.stage = "input"
    /\ method_call' = [method_call EXCEPT
            !.stage = "output",
            !.emotion = DetectEmotion(method_call.text, method_call.previous_emotion)]
    /\ UNCHANGED <<vibevoice_service, speaker_profiles, conversation_history, tasks,
                   exclusive, annotated>>

NextEmotion == Detect

SpecEmotion == InitEmotion /\ [][NextEmotion]_vars

\* The emotions with the largest number of pattern matches in the text
TopMatched(text) ==
    {e \in Emotions : \A x \in Emotions : PatternMatches(text, x) <= PatternMatches(text, e)}

\* C21: _detect_emotion returns a non-neutral emotion only if it has a pattern
\* match in the text and no emotion has more; the continuity bonus alone never
\* passes the gate nor overrides a larger count; among the emotions with the
\* maximal count the previous emotion wins, otherwise the earliest in
\* EmotionType order.
C21_DetectByMatchCount ==
    method_call.stage = "output" =>
        LET text == method_call.text
            previous == method_call.previous_emotion
            e == method_call.emotion
            top == TopMatched(text)
        IN /\ e # "neutral" => (PatternMatches(text, e) >= 1 /\ e \in top)
           /\ (\A x \in Emotions : PatternMatches(text, x) = 0) => e = "neutral"
           /\ (\E x \in Emotions : PatternMatches(text, x) >= 1) =>
                 IF previous \in top THEN e = previous
                 ELSE /\ e \in top
                      /\ \A i, j \in 1..Len(EmotionType) :
                            (EmotionType[i] \in top /\ EmotionType[j] = e) => j <= i

\* The previous emotion wins a tie against an emotion earlier in the order
C21_Witness ==
    /\ method_call.stage = "output"
    /\ method_call.text = <<"I am so sorry">>
    /\ method_call.previous_emotion = "sad"
    /\ method_call.emotion = "sad"

\* ------------------------------------------ the pause calculator on its own
\* _calculate_natural_pauses called for a segment of Alice after no segment,
\* after one of Alice and after one of Bob, in every style, with and without a
\* profile of Alice.
PauseSentences ==
    {"Hi there!", "Hello, how are you?", "Good morning",
     "I agree, however we should wait", "Wow, that is really amazing!"}

PauseTexts == SeqsUpTo(PauseSentences, MaxLines) \ {<<>>}

PauseProfiles(conversation_style) ==
    {NoProfiles} \cup {[n \in {"Alice"} |-> d] : d \in ProfileDraws(conversation_style)}

InitPauses ==
    /\ vibevoice_service = NoService
    /\ speaker_profiles = NoProfiles
    /\ conversation_history = <<>>
    /\ tasks = [b \in Tasks |-> IdleTask]
    /\ exclusive = [b \in Tasks |-> FALSE]
    /\ annotated = <<>>
    /\ \E text \in PauseTexts, previous_speaker \in {None, "Alice", "Bob"},
          conversation_style \in ConversationStyle, jitter \in JitterSamples :
        \E profiles \in PauseProfiles(conversation_style) :
          method_call = [stage |-> "input", text |-> text, speaker |-> "Alice",
                         previous_speaker |-> previous_speaker,
                         conversation_style |-> conversation_style,
                         profiles |-> profiles, jitter |-> jitter,
                         base |-> <<0, 0>>, pauses |-> <<0, 0>>]

Pauses ==
    /\ method_call.stage = "input"
    /\ method_call' = [method_call EXCEPT
            !.stage = "output",
            !.base = BasePauses(method_call.text, method_call.speaker,
                                method_call.previous_speaker,
                                method_call.conversation_style, method_call.profiles),
            !.pauses = CalculateNaturalPauses(method_call.text, method_call.speaker,
                                method_call.previous_speaker,
                                method_call.conversation_style, method_call.profiles,
                                method_call.jitter)]
    /\ UNCHANGED <<vibevoice_service, speaker_profiles, conversation_history, tasks,
                   exclusive, annotated>>

NextPauses == Pauses

SpecPauses == InitPauses /\ [][NextPauses]_vars

\* C22: before jitter and clamping, pause_before is the style's speaker_change
\* pause when the speaker differs from the previous segment's and 0.2 s
\* otherwise (also for the first segment); pause_after is the question pause
\* for a text ending in '?', sentence_end x 1.2 for one ending in '!', else
\* sentence_end, never below the comma pause when the text has a comma, plus
\* the thinking pause for a discourse connective, all times the speaker's
\* pause_preference; formal and dramatic use the natural table.
C22_BasePauses ==
    method_call.stage = "output" =>
        LET m == method_call
            style == IF m.conversation_style \in {"formal", "dramatic"}
                     THEN "natural" ELSE m.conversation_style
            table == PausePatterns[style]
            ending == IF EndsWith(m.text, "?") THEN table.question
                      ELSE IF EndsWith(m.text, "!") THEN (table.sentence_end * 12) \div 10
                      ELSE table.sentence_end
            floored == IF HasComma(m.text) THEN Max(ending, table.comma) ELSE ending
            thought == floored + (IF HasConnective(m.text) THEN table.thinking ELSE 0)
            preference == IF m.speaker \in DOMAIN m.profiles
                          THEN m.profiles[m.speaker].pause_preference ELSE 100
        IN /\ m.base[1] = IF m.previous_speaker \notin {None, m.speaker}
                          THEN table.speaker_change ELSE 200
           /\ m.base[2] = (thought * preference) \div 100
           /\ m.pauses = <<ClampPauseBefore(m.base[1] + m.jitter[1]),
                           ClampPauseAfter(m.base[2] + m.jitter[2])>>

\* A dramatic-style segment with a comma and a connective, after another
\* speaker, by a speaker with a profile
C22_Witness ==
    /\ method_call.stage = "output"
    /\ method_call.conversation_style = "dramatic"
    /\ method_call.text = <<"I agree, however we should wait">>
    /\ method_call.previous_speaker = "Bob"
    /\ method_call.speaker \in DOMAIN method_call.profiles
    /\ method_call.base[1] = 1000

\* The segments _add_natural_interactions was given by the annotator call
AnnotatedInput ==
    EnhanceFrom(ParseConversationScript(annotated.script), 1, "neutral", None,
                annotated.conversation_style, TRUE, speaker_profiles, annotated.jitter)

IsReaction(segment) == Len(segment.text) = 1 /\ segment.text[1] \in Reactions

IsUtterance(segment) == ~IsReaction(segment)

\* C11: _add_natural_interactions keeps the input segments unchanged and in
\* order, inserts at most one reaction directly after a non-last input segment
\* and none after the last, each reaction attributed to the speaker of the
\* input segment that follows it; nothing is inserted for the formal style; the
\* output count n' satisfies n <= n' <= 2n - 1 for n >= 1.
C11_InteractionsInterleave ==
    (annotated.stage = "output" /\ annotated.add_natural_interactions) =>
        LET input == AnnotatedInput
            out == annotated.segments
            n == Len(input)
        IN /\ SelectSeq(out, IsUtterance) = input
           /\ \A k \in 1..Len(out) :
                 IsReaction(out[k]) =>
                    /\ k > 1 /\ k < Len(out)
                    /\ IsUtterance(out[k - 1]) /\ IsUtterance(out[k + 1])
                    /\ out[k].speaker = out[k + 1].speaker
           /\ annotated.conversation_style = "formal" => out = input
           /\ n >= 1 => (n <= Len(out) /\ Len(out) <= 2 * n - 1)
           /\ n = 0 => out = <<>>

\* A reaction of Alice inserted between a segment of Carol and one of Alice
C11_Witness ==
    /\ annotated.stage = "output"
    /\ annotated.add_natural_interactions
    /\ Len(annotated.segments) = 3
    /\ annotated.segments[1].speaker = "Carol"
    /\ IsReaction(annotated.segments[2])
    /\ annotated.segments[2].speaker = "Alice"
    /\ annotated.segments[3] = AnnotatedInput[2]

RECURSIVE SumCounts(_, _)
SumCounts(counts, i) ==
    IF i > Len(EmotionType) THEN 0
    ELSE counts[EmotionType[i]] + SumCounts(counts, i + 1)

RECURSIVE TotalWords(_, _)
TotalWords(segments, k) ==
    IF k > Len(segments) THEN 0
    ELSE WordCount(segments[k].text) + TotalWords(segments, k + 1)

\* C19: for a returned build in which every segment synthesized and no
\* interjection was added, metadata.speaker_count is the number of distinct
\* speakers of the conversation and metadata.word_count is the sum of the
\* whitespace-separated word counts of the parsed utterances.
C19_MetadataCounts ==
    \A b \in Tasks :
        LET t == tasks[b] IN
        (/\ t.pc = "done" /\ t.result.kind = "returned"
         /\ Len(t.outcomes) = Len(t.segments)
         /\ \A k \in 1..Len(t.outcomes) : t.outcomes[k]
         /\ \A k \in 1..Len(t.segments) : IsUtterance(t.segments[k]))
        => /\ t.result.speaker_count =
                Cardinality({t.segments[k].speaker : k \in 1..Len(t.segments)})
           /\ t.result.word_count = TotalWords(t.segments, 1)

\* C10: in the metadata a build returns, the values of emotion_distribution sum
\* to 1: the per-emotion counts add up to the segment count they are divided by.
C10_EmotionDistributionSumsToOne ==
    \A b \in Tasks :
        (Done(tasks[b]) /\ tasks[b].result.kind = "returned")
            => SumCounts(tasks[b].result.emotion_counts, 1)
                 = tasks[b].result.segment_count

====
